---------------------------- MODULE Spec2Model ----------------------------
(***************************************************************************)
(* Model of somethin-meter-firmware.ino: an ESP8266 sketch that polls an   *)
(* HTTP endpoint for a probability and drives an analog meter through a    *)
(* calibrated two-segment PWM mapping, with a serial command channel.      *)
(*                                                                         *)
(* Values of C type float are IEEE-754 binary32 numbers.  A float is       *)
(* modelled by the record [neg, m, k] standing for (-1)^neg * m * 2^-k     *)
(* with 2^23 <= m < 2^24 (24 significant bits), or m = 0 for zero.  The    *)
(* arithmetic on them is computed exactly, with round-to-nearest-even,     *)
(* on integers that stay below 2^31.  A decimal input is given in          *)
(* thousandths: the integer x stands for the decimal literal x/1000.       *)
(*                                                                         *)
(* map() is the Arduino core function of the language reference:           *)
(* (x - in_min) * (out_max - out_min) / (in_max - in_min) + out_min in     *)
(* long arithmetic, the division truncating toward zero.                   *)
(***************************************************************************)
EXTENDS Integers, Sequences, FiniteSets, TLC

(***************************************************************************)
(* Program constants.                                                      *)
(***************************************************************************)
PWM_RANGE == 1023
CENTER_PWM == 46
MAX_PWM == 91
fetchInterval == 30000
LED_ON == 25

(***************************************************************************)
(* Integer helpers.                                                        *)
(***************************************************************************)
RECURSIVE Pow2(_)
Pow2(n) == IF n = 0 THEN 1 ELSE 2 * Pow2(n - 1)

\* C integer division: the quotient truncates toward zero.
CDiv(a, b) ==
  IF (a >= 0) = (b > 0) \/ a = 0
    THEN (IF a >= 0 THEN a ELSE -a) \div (IF b > 0 THEN b ELSE -b)
    ELSE -((IF a >= 0 THEN a ELSE -a) \div (IF b > 0 THEN b ELSE -b))

\* 24 significant bits: a normalised significand lies in MantLo .. 2*MantLo - 1.
MantLo == Pow2(23)
\* Products of a significand and a small integer are kept in two limbs of
\* LimbBits bits so that no intermediate value reaches 2^31.
Limb == Pow2(12)

(***************************************************************************)
(* binary32 values and the conversions the sketch performs on them.        *)
(***************************************************************************)
F32Zero == [neg |-> FALSE, m |-> 0, k |-> 0]

\* Doubles the quotient q (remainder r, of a division by den) until it has
\* 24 bits; k counts the doublings.  <<q, r, k>>: n/den = (q + r/den) * 2^-k.
RECURSIVE Normalise(_, _, _, _)
Normalise(q, r, k, den) ==
  IF q >= MantLo THEN <<q, r, k>>
  ELSE Normalise(2 * q + (IF 2 * r >= den THEN 1 ELSE 0), (2 * r) % den, k + 1, den)

\* Round to nearest, ties to even: q with the discarded part rem out of unit.
RoundEven(q, rem, unit) ==
  IF 2 * rem > unit \/ (2 * rem = unit /\ q % 2 = 1) THEN q + 1 ELSE q

\* The float nearest to the rational n/den (n >= 0, den > 0): what parsing a
\* decimal literal, or storing the double n/den into a float, produces.
F32FromRatio(neg, n, den) ==
  IF n = 0 THEN [F32Zero EXCEPT !.neg = neg]
  ELSE LET t == Normalise(n \div den, n % den, 0, den)
           m == RoundEven(t[1], t[2], den)
       IN IF m = 2 * MantLo THEN [neg |-> neg, m |-> MantLo, k |-> t[3] - 1]
          ELSE [neg |-> neg, m |-> m, k |-> t[3]]

\* value <= 0.5, value < 0.0 and value > 1.0, compared exactly
\* (m < 2^24, so the comparison is decided by k alone outside 1 .. 24.)
F32LeqHalf(f) ==
  f.neg \/ f.m = 0 \/ f.k > 24 \/ (f.k >= 1 /\ f.k <= 24 /\ f.m <= Pow2(f.k - 1))
F32Negative(f) == f.neg /\ f.m # 0
F32AboveOne(f) ==
  ~f.neg /\ f.m # 0 /\ (f.k < 0 \/ (f.k <= 23 /\ f.m > Pow2(f.k)))
F32One == [neg |-> FALSE, m |-> MantLo, k |-> 23]

\* m * c as the two limbs <<hi, lo>>: m * c = hi * Limb + lo, 0 <= lo < Limb.
MulLimbs(m, c) ==
  LET t == (m % Limb) * c
  IN <<(m \div Limb) * c + t \div Limb, t % Limb>>

\* The number of low bits to drop from hi * Limb + lo to leave 24 bits.
RECURSIVE DropBits(_, _, _)
DropBits(hi, lo, s) ==
  IF s = 0 \/ hi * Pow2(12 - s) + lo \div Pow2(s) >= MantLo THEN s
  ELSE DropBits(hi, lo, s - 1)

\* (long)(f * c) where the product is a float product: f (a float, finite)
\* times the int c (1 <= c <= 1000), rounded to 24 bits, then truncated toward
\* zero by the conversion to long.
F32MulToLong(f, c) ==
  IF f.m = 0 THEN 0
  ELSE LET p == MulLimbs(f.m, c)
           s == DropBits(p[1], p[2], 12)
           q == p[1] * Pow2(12 - s) + p[2] \div Pow2(s)
           n == IF s = 0 THEN q ELSE RoundEven(q, p[2] % Pow2(s), Pow2(s))
           mag == IF f.k >= s THEN n \div Pow2(f.k - s) ELSE n * Pow2(s - f.k)
       IN IF f.neg THEN -mag ELSE mag

\* (long)((f - 0.5) * c) for a float f >= 0.5: f is widened to double, the
\* difference and the product (below 2^53) are exact in double, and the
\* conversion to long truncates.
F64SubHalfMulToLong(f, c) ==
  LET a == f.m - Pow2(f.k - 1)
      p == MulLimbs(a, c)
  IN p[1] \div Pow2(f.k - 12)

\* Variant of map that forgets to add out_min.
map_NoOutMin(x, in_min, in_max, out_min, out_max) ==
  CDiv((x - in_min) * (out_max - out_min), in_max - in_min)

\* Arduino map(x, in_min, in_max, out_min, out_max), in long arithmetic.
map(x, in_min, in_max, out_min, out_max) ==
  CDiv((x - in_min) * (out_max - out_min), in_max - in_min) + out_min

\* Variants of constrain01 with a bound forgotten.
constrain01_NoUpper(value) == IF F32Negative(value) THEN F32Zero ELSE value
constrain01_NoLower(value) == IF F32AboveOne(value) THEN F32One ELSE value

\* constrain(value, 0.0, 1.0)
constrain01(value) ==
  IF F32Negative(value) THEN F32Zero
  ELSE IF F32AboveOne(value) THEN F32One
  ELSE value

\* Variant of PercentTimes10 whose upper piece starts at 0, not at the centre.
PercentTimes10_NoOffset(value, center, max) ==
  IF F32LeqHalf(value)
    THEN map(F32MulToLong(value, 1000), 0, 500, 0, center * 10)
    ELSE map(F64SubHalfMulToLong(value, 1000), 0, 500, 0, (max - center) * 10)

\* Variant of LowerPiece that spreads the lower piece over the whole of [0, 1].
LowerPiece_To1000(value, center) ==
  map(F32MulToLong(value, 1000), 0, 1000, 0, center * 10)

\* The two map() calls of lines 349 and 351 (and of lines 360 and 362).
LowerPiece(value, center) ==
  map(F32MulToLong(value, 1000), 0, 500, 0, center * 10)
UpperPiece(value, center, max) ==
  map(F64SubHalfMulToLong(value, 1000), 0, 500, center * 10, max * 10)

\* The duty percentage times 10 that setMeterValue holds in pwmPercentage
\* (lines 348-352) for an already constrained value: the long map() returns,
\* divided by 10.0 and stored into a float.
PercentTimes10(value, center, max) ==
  IF F32LeqHalf(value)
    THEN LowerPiece(value, center)
    ELSE UpperPiece(value, center, max)

pwmPercentage(value, center, max) ==
  LET t == PercentTimes10(value, center, max)
  IN F32FromRatio(t < 0, IF t < 0 THEN -t ELSE t, 10)

\* valueToPercentage(value), lines 358-364: the same two map() calls on the
\* value as it is passed, divided by 10.0.
valueToPercentage(value) ==
  LET t == IF F32LeqHalf(value)
             THEN LowerPiece(value, CENTER_PWM)
             ELSE UpperPiece(value, CENTER_PWM, MAX_PWM)
  IN F32FromRatio(t < 0, IF t < 0 THEN -t ELSE t, 10)

\* The duty setMeterValue writes for value under a calibration
\* (centerDuty, maxDuty, dutyRange).
DutyFor(value, center, max, range) ==
  map(F32MulToLong(pwmPercentage(constrain01(value), center, max), 10),
      0, 1000, 0, range)

\* setMeterValue(value): the duty written to PWM_PIN.
setMeterValue(value) == DutyFor(value, CENTER_PWM, MAX_PWM, PWM_RANGE)

\* The float a decimal literal of x thousandths parses to.
F32OfThousandths(x) == F32FromRatio(x < 0, IF x < 0 THEN -x ELSE x, 1000)

(***************************************************************************)
(* Operator command lines: sequences of one-character strings.             *)
(***************************************************************************)
Digits == <<"0", "1", "2", "3", "4", "5", "6", "7", "8", "9">>
IsDigit(c) == \E i \in 1..10 : Digits[i] = c
DigitVal(c) == (CHOOSE i \in 1..10 : Digits[i] = c) - 1
IsSpace(c) == c \in {" ", "\t", "\r", "\n"}

RECURSIVE TrimLeft(_)
TrimLeft(s) == IF s # <<>> /\ IsSpace(Head(s)) THEN TrimLeft(Tail(s)) ELSE s
RECURSIVE TrimRight(_)
TrimRight(s) ==
  IF s # <<>> /\ IsSpace(s[Len(s)]) THEN TrimRight(SubSeq(s, 1, Len(s) - 1)) ELSE s
\* String::trim()
trim(s) == TrimRight(TrimLeft(s))

\* The digits at the front of s: <<value of the digits read, how many, the rest>>.
RECURSIVE ReadDigits(_, _, _)
ReadDigits(s, acc, n) ==
  IF s # <<>> /\ IsDigit(Head(s))
    THEN ReadDigits(Tail(s), 10 * acc + DigitVal(Head(s)), n + 1)
    ELSE <<acc, n, s>>

\* The first three fraction digits at the front of s, as thousandths, and how
\* many digits were read (the command lines of the model carry at most three).
RECURSIVE ReadFraction(_, _, _)
ReadFraction(s, acc, n) ==
  IF s # <<>> /\ IsDigit(Head(s))
    THEN ReadFraction(Tail(s),
                      IF n < 3 THEN acc + DigitVal(Head(s)) * (CASE n = 0 -> 100 [] n = 1 -> 10 [] OTHER -> 1) ELSE acc,
                      n + 1)
    ELSE <<acc, n, s>>

\* The decimal number atof() reads at the front of s, in thousandths:
\* <<thousandths, the unread rest>>; <<0, s>> when s starts with no number.
ParseDecimal(s) ==
  LET t == TrimLeft(s)
      neg == t # <<>> /\ Head(t) = "-"
      u == IF t # <<>> /\ Head(t) \in {"-", "+"} THEN Tail(t) ELSE t
      ip == ReadDigits(u, 0, 0)
      fp == IF ip[3] # <<>> /\ Head(ip[3]) = "." THEN ReadFraction(Tail(ip[3]), 0, 0)
            ELSE <<0, 0, ip[3]>>
      mag == 1000 * ip[1] + fp[1]
  IN IF ip[2] + fp[2] = 0 THEN <<0, s>>
     ELSE <<IF neg THEN -mag ELSE mag, fp[3]>>

\* String::toFloat(): the float of the number at the front of the line, 0.0
\* when there is none.
toFloat(s) == F32OfThousandths(ParseDecimal(s)[1])

\* The decimal literal d.ddd of x thousandths (0 <= x < 10000).
Literal(x) ==
  <<Digits[(x \div 1000) + 1], ".", Digits[((x \div 100) % 10) + 1],
    Digits[((x \div 10) % 10) + 1], Digits[(x % 10) + 1]>>

CmdCenterLine == <<"c", "e", "n", "t", "e", "r">>
CmdOffLine == <<"o", "f", "f">>
CmdFetchLine == <<"f", "e", "t", "c", "h">>

(***************************************************************************)
(* Bounds of the model.  millis() and lastFetch are unsigned counters      *)
(* modulo 2^ClockBits milliseconds (32 bits on the device); time is        *)
(* observed in steps of 2^TickBits milliseconds.                           *)
(***************************************************************************)
TickBits == 13
ClockBits == 16
Tick == Pow2(TickBits)
MillisMod == Pow2(ClockBits)

\* What a blocking call may let pass: nothing observable, or one tick.
Elapsed == {0, Tick}
\* unsigned a - b
USub(a, b) == (a - b + MillisMod) % MillisMod
UAdd(a, e) == (a + e) % MillisMod
\* Time that has really passed is followed up to one period of the clock:
\* SinceCap stands for a period or more.
SinceCap == MillisMod
Later(since, e) == IF since + e > SinceCap THEN SinceCap ELSE since + e

(***************************************************************************)
(* Inputs of the environment.                                              *)
(***************************************************************************)
HTTP_CODE_OK == 200
\* What http.GET() is made to return: a client error (connection failed),
\* success, and a status that is not success (not found).
HttpCodes == {-1, HTTP_CODE_OK, 404}

\* Decimal inputs range over -OutOfRange .. 1000 + OutOfRange thousandths.
OutOfRange == 500
Thousandths == (0 - OutOfRange)..(1000 + OutOfRange)

\* The "probability" numbers the endpoint is made to send, in thousandths.
SampleProbabilities == {-200, 730, 1500}
NoBody == [kind |-> "none", probability |-> 0]
Malformed == [kind |-> "malformed", probability |-> 0]
Json(p) == [kind |-> "json", probability |-> p]
Bodies == {Malformed} \cup {Json(p) : p \in SampleProbabilities}

\* The lines the operator is made to type.
CommandLines ==
  { CmdCenterLine, CmdOffLine, CmdFetchLine,
    <<" ", "o", "f", "f", "\r">>,
    Literal(730), <<"1">>, <<"-", "0", ".", "2">>, <<"1", ".", "5">>,
    <<"h", "e", "l", "l", "o">>, <<>> }

F32Half == [neg |-> FALSE, m |-> MantLo, k |-> 24]

\* The literals d.ddd of the whole range of non-negative inputs.
Literals == {Literal(x) : x \in 0..(1000 + OutOfRange)}

\* The conversions and setMeterValue, tabulated once over the inputs above:
\* the float of each decimal, the trimmed line and its float for each line,
\* and the duty setMeterValue writes for each float.
FloatOf == [x \in Thousandths |-> F32OfThousandths(x)]
LineTable ==
  [line \in CommandLines \cup Literals |->
     [command |-> trim(line), value |-> toFloat(trim(line))]]
Floats ==
  {FloatOf[x] : x \in Thousandths} \cup {F32Zero, F32Half, F32One}
    \cup {LineTable[line].value : line \in DOMAIN LineTable}
MeterDuty == [value \in Floats |-> setMeterValue(value)]
\* The duty setMeterValue writes for the float of each decimal.
DutyAt == [x \in Thousandths |-> MeterDuty[FloatOf[x]]]

(***************************************************************************)
(* The state.                                                              *)
(***************************************************************************)
VARIABLES
  pc,                  \* where the single thread of control stands
  caller,              \* who called fetchProbabilityData: setup, loop, command
  wifi,                \* WiFi.status() = WL_CONNECTED
  now,                 \* millis()
  lastFetch,
  pwmDuty,             \* duty last written to PWM_PIN
  ledDuty,             \* duty last written to LED_PIN
  currentProbability,
  serial,              \* the last line printed on Serial
  lcd,                 \* the first row of the display
  \* What the step just taken completed, for the statement of the properties:
  op,                  \* "poll" (fetchProbabilityData returned), "cmd", "setup", "none"
  result,              \* how it ended
  cmdLine,             \* the command line handled
  body,                \* the response body a poll received
  dutyBefore,          \* pwmDuty when the poll or the command started
  meterSet,            \* whether setMeterValue was called during it
  sinceStore           \* the time really passed since lastFetch was stored
                       \* (since power-up before that), up to SinceCap

prog == <<pc, caller, now, lastFetch, pwmDuty, ledDuty, currentProbability, serial, lcd>>
obs == <<op, result, cmdLine, body, dutyBefore, meterSet>>
vars == <<prog, wifi, obs, sinceStore>>

\* No duty level: the mark of dutyBefore outside a poll or a command.
NoDuty == PWM_RANGE + 1

ClearObs ==
  /\ op' = "none" /\ result' = "none" /\ cmdLine' = <<>> /\ body' = NoBody
  /\ dutyBefore' = NoDuty /\ meterSet' = FALSE

Init ==
  /\ pc = "boot" /\ caller = "none" /\ wifi = FALSE
  /\ now = 0 /\ lastFetch = 0
  /\ pwmDuty = 0 /\ ledDuty = 0
  /\ currentProbability = F32Zero
  /\ serial = "" /\ lcd = ""
  /\ op = "none" /\ result = "none" /\ cmdLine = <<>> /\ body = NoBody
  /\ dutyBefore = NoDuty /\ meterSet = FALSE
  /\ sinceStore = 0

(***************************************************************************)
(* setup(), lines 44-81: the pins, the display, LED off, meter at 0, then  *)
(* the call of connectToWiFi().                                            *)
(***************************************************************************)
SetupBegin ==
  /\ pc = "boot"
  /\ \E e \in Elapsed : now' = UAdd(now, e) /\ sinceStore' = Later(sinceStore, e)
  /\ lcd' = "Starting up..."
  /\ serial' = "LCD initialized successfully"
  /\ ledDuty' = 0
  /\ pwmDuty' = MeterDuty[F32Zero]
  /\ pc' = "connect"
  /\ UNCHANGED <<caller, lastFetch, currentProbability, wifi>>
  /\ op' = "setup" /\ result' = "none" /\ cmdLine' = <<>> /\ body' = NoBody
  /\ dutyBefore' = pwmDuty /\ meterSet' = TRUE

(***************************************************************************)
(* connectToWiFi(), lines 137-169.                                         *)
(***************************************************************************)
\* Variant of LedWhileConnecting that lights the LED while connecting.
LedWhileConnecting_On == LED_ON

\* The duty written to LED_PIN on entry and in each round of the wait loop.
LedWhileConnecting == 0

ConnectBegin ==
  /\ pc = "connect"
  /\ serial' = "Connecting to WiFi"
  /\ ledDuty' = LedWhileConnecting
  /\ lcd' = "Connecting WiFi..."
  /\ pc' = "wifi_wait"
  /\ UNCHANGED <<caller, now, lastFetch, pwmDuty, currentProbability, wifi, obs, sinceStore>>

\* One round of the loop of lines 148-152: the status is not WL_CONNECTED.
WiFiWait ==
  /\ pc = "wifi_wait" /\ ~wifi
  /\ \E e \in Elapsed : now' = UAdd(now, e) /\ sinceStore' = Later(sinceStore, e)
  /\ serial' = "."
  /\ ledDuty' = LedWhileConnecting
  /\ UNCHANGED <<pc, caller, lastFetch, pwmDuty, currentProbability, lcd, wifi, obs>>

\* Where control goes when fetchProbabilityData returns to who called it, and
\* what that caller stores in lastFetch (lines 96, 102; nothing at line 120).
\* Variant of ReturnPc in which setup() fetches again after its fetch.
ReturnPc_SetupRefetch(who) ==
  CASE who = "setup" -> "fetch"
    [] who = "loop" -> "serial"
    [] OTHER -> "delay"

ReturnPc(who) ==
  CASE who = "setup" -> "loop"
    [] who = "loop" -> "serial"
    [] OTHER -> "delay"
\* Variant of LastFetchAfter in which no caller stores the time.
LastFetchAfter_Keep(who, last, t) == last

LastFetchAfter(who, last, t) == IF who \in {"setup", "loop"} THEN t ELSE last
\* The time passed since lastFetch was stored, e after the time `since`.
SinceAfter(who, since, e) == IF who \in {"setup", "loop"} THEN 0 ELSE Later(since, e)

\* The loop ends (lines 154-168).  Called from setup, control goes on to the
\* first fetch (lines 83-95); called from fetchProbabilityData, that returns
\* (line 187).
ConnectDone ==
  /\ pc = "wifi_wait" /\ wifi
  /\ \E e \in Elapsed :
       now' = UAdd(now, e) /\ sinceStore' = SinceAfter(caller, sinceStore, e)
  /\ ledDuty' = LED_ON
  /\ lcd' = "WiFi Connected"
  /\ UNCHANGED <<pwmDuty, currentProbability, wifi>>
  /\ IF caller = "none"
       THEN /\ serial' = "Auto-fetching probability every 30 seconds..."
            /\ pc' = "fetch" /\ caller' = "setup"
            /\ UNCHANGED <<lastFetch, obs>>
       ELSE /\ serial' = "Status LED: ON (WiFi connected)"
            /\ pc' = ReturnPc(caller)
            /\ lastFetch' = LastFetchAfter(caller, lastFetch, now')
            /\ op' = "poll" /\ result' = "wifi_down"
            /\ UNCHANGED <<caller, cmdLine, body, dutyBefore, meterSet>>

(***************************************************************************)
(* fetchProbabilityData(), lines 182-255.                                  *)
(***************************************************************************)
\* Lines 183-200: without WiFi, reconnect; with it, send the GET.
FetchBegin ==
  /\ pc = "fetch"
  /\ op' = "none" /\ result' = "none" /\ cmdLine' = <<>> /\ body' = NoBody
  /\ dutyBefore' = pwmDuty /\ meterSet' = FALSE
  /\ IF ~wifi
       THEN /\ serial' = "WiFi not connected, attempting reconnection..."
            /\ ledDuty' = 0
            /\ pc' = "connect"
            /\ UNCHANGED lcd
       ELSE /\ serial' = "Fetching data from endpoint... "
            /\ lcd' = "Fetching data..."
            /\ pc' = "http"
            /\ UNCHANGED ledDuty
  /\ UNCHANGED <<caller, now, lastFetch, pwmDuty, currentProbability, wifi, sinceStore>>

\* The four ways the response is handled: what is left in
\* [result, duty, meterSet, prob, led, lcd] from the duty d, the stored
\* probability cp and the LED duty led.
OnConnectionFailed(d, cp, led) ==
  [result |-> "conn_failed", duty |-> d, meterSet |-> FALSE, prob |-> cp,
   led |-> led, lcd |-> "Connection Failed"]

OnHttpError(d, cp, led) ==
  [result |-> "http_error", duty |-> d, meterSet |-> FALSE, prob |-> cp,
   led |-> led, lcd |-> "HTTP Error"]

\* Variant of OnParseError that applies the 0.0 an empty document yields.
OnParseError_AppliesDefault(d, cp) ==
  [result |-> "parse_error", duty |-> MeterDuty[F32Zero], meterSet |-> TRUE,
   prob |-> F32Zero, led |-> LED_ON, lcd |-> "JSON Parse Error"]

\* blinkLED() has run: the LED is left on.
OnParseError(d, cp) ==
  [result |-> "parse_error", duty |-> d, meterSet |-> FALSE, prob |-> cp,
   led |-> LED_ON, lcd |-> "JSON Parse Error"]

\* Lines 215-226: p is the number of the "probability" member, in thousandths.
OnData(p) ==
  [result |-> "ok", duty |-> MeterDuty[FloatOf[p]], meterSet |-> TRUE,
   prob |-> FloatOf[p], led |-> LED_ON, lcd |-> "title"]

HandleResponse(code, b, d, cp, led) ==
  IF code > 0
    THEN IF code = HTTP_CODE_OK
           THEN IF b.kind = "json" THEN OnData(b.probability) ELSE OnParseError(d, cp)
           ELSE OnHttpError(d, cp, led)
    ELSE OnConnectionFailed(d, cp, led)

\* Lines 200-255: http.GET() returns (in time, or on its timeout), the
\* response is handled, and fetchProbabilityData returns to its caller.
\* codes, bodies and elapsed are what the environment may answer.
HttpDoneOn(codes, bodies, elapsed) ==
  /\ pc = "http"
  /\ \E code \in codes, b \in bodies, e \in elapsed :
       LET r == HandleResponse(code, b, pwmDuty, currentProbability, ledDuty)
       IN /\ now' = UAdd(now, e)
          /\ pwmDuty' = r.duty
          /\ currentProbability' = r.prob
          /\ ledDuty' = r.led
          /\ lcd' = r.lcd
          /\ serial' = "Next fetch in 30 seconds..."
          /\ pc' = ReturnPc(caller)
          /\ lastFetch' = LastFetchAfter(caller, lastFetch, now')
          /\ sinceStore' = SinceAfter(caller, sinceStore, e)
          /\ op' = "poll" /\ result' = r.result
          /\ body' = (IF code = HTTP_CODE_OK THEN b ELSE NoBody)
          /\ meterSet' = r.meterSet
  /\ UNCHANGED <<caller, wifi, cmdLine, dutyBefore>>

HttpDone == HttpDoneOn(HttpCodes, Bodies, Elapsed)

(***************************************************************************)
(* loop(), lines 99-135.                                                   *)
(***************************************************************************)
\* Variant of FetchDue that compares the counter with lastFetch + fetchInterval.
FetchDue_Sum(t, last) == t >= last + fetchInterval

\* Line 100: millis() - lastFetch >= fetchInterval, in unsigned arithmetic.
FetchDue(t, last) == USub(t, last) >= fetchInterval

LoopTimer ==
  /\ pc = "loop"
  /\ IF FetchDue(now, lastFetch)
       THEN pc' = "fetch" /\ caller' = "loop"
       ELSE pc' = "serial" /\ caller' = "none"
  /\ UNCHANGED <<now, lastFetch, pwmDuty, ledDuty, currentProbability, serial, lcd, wifi,
                 sinceStore>>
  /\ ClearObs

\* Line 105: nothing to read.
LoopNoInput ==
  /\ pc = "serial"
  /\ pc' = "delay" /\ caller' = "none"
  /\ UNCHANGED <<now, lastFetch, pwmDuty, ledDuty, currentProbability, serial, lcd, wifi,
                 sinceStore>>
  /\ ClearObs

\* The branches of lines 109-130 other than fetch: what is left in
\* [result, duty, meterSet, serial, lcd] from the duty d and the display l.
CmdCenter(d, l) ==
  [result |-> "center", duty |-> MeterDuty[F32Half], meterSet |-> TRUE,
   serial |-> "Manual: Meter set to CENTER (0.5)", lcd |-> "Manual Mode"]

\* Variant of CmdOff that forgets the write to PWM_PIN.
CmdOff_NoWrite(d, l) ==
  [result |-> "off", duty |-> d, meterSet |-> FALSE,
   serial |-> "Manual: Meter OFF", lcd |-> "METER OFF"]

CmdOff(d, l) ==
  [result |-> "off", duty |-> 0, meterSet |-> FALSE,
   serial |-> "Manual: Meter OFF", lcd |-> "METER OFF"]

\* Line 123: value >= 0.0 && value <= 1.0
InRange(value) == ~F32Negative(value) /\ ~F32AboveOne(value)

\* Variant of CmdValue that moves the meter half way from the duty it shows.
CmdValue_Smoothed(value, d, l) ==
  IF InRange(value)
    THEN [result |-> "value", duty |-> (d + MeterDuty[value]) \div 2,
          meterSet |-> TRUE, serial |-> "Manual: Meter set to", lcd |-> "Manual Mode"]
    ELSE [result |-> "invalid", duty |-> d, meterSet |-> FALSE,
          serial |-> "Examples: 0.0 (min), 0.5 (center), 1.0 (max)", lcd |-> l]

\* Variant of CmdValue that scales the value straight to the duty range.
CmdValue_Linear(value, d, l) ==
  IF InRange(value)
    THEN [result |-> "value", duty |-> (F32MulToLong(value, 1000) * PWM_RANGE) \div 1000,
          meterSet |-> TRUE, serial |-> "Manual: Meter set to", lcd |-> "Manual Mode"]
    ELSE [result |-> "invalid", duty |-> d, meterSet |-> FALSE,
          serial |-> "Examples: 0.0 (min), 0.5 (center), 1.0 (max)", lcd |-> l]

CmdValue(value, d, l) ==
  IF InRange(value)
    THEN [result |-> "value", duty |-> MeterDuty[value], meterSet |-> TRUE,
          serial |-> "Manual: Meter set to", lcd |-> "Manual Mode"]
    ELSE [result |-> "invalid", duty |-> d, meterSet |-> FALSE,
          serial |-> "Examples: 0.0 (min), 0.5 (center), 1.0 (max)", lcd |-> l]

\* value is command.toFloat().
HandleCommand(command, value, d, l) ==
  IF command = CmdCenterLine THEN CmdCenter(d, l)
  ELSE IF command = CmdOffLine THEN CmdOff(d, l)
  ELSE CmdValue(value, d, l)

\* Lines 105-132: a line is read, trimmed and dispatched.  lines are the
\* lines the operator may have typed.
LoopCommandOn(lines) ==
  /\ pc = "serial"
  /\ \E line \in lines :
       LET command == LineTable[line].command
       IN IF command = CmdFetchLine
            THEN /\ pc' = "fetch" /\ caller' = "command"
                 /\ UNCHANGED <<pwmDuty, serial, lcd>>
                 /\ ClearObs
            ELSE LET r == HandleCommand(command, LineTable[line].value, pwmDuty, lcd)
                 IN /\ pc' = "delay" /\ caller' = "none"
                    /\ pwmDuty' = r.duty
                    /\ serial' = r.serial
                    /\ lcd' = r.lcd
                    /\ op' = "cmd" /\ result' = r.result
                    /\ cmdLine' = line /\ body' = NoBody
                    /\ dutyBefore' = pwmDuty /\ meterSet' = r.meterSet
  /\ UNCHANGED <<now, lastFetch, ledDuty, currentProbability, wifi, sinceStore>>

LoopCommand == LoopCommandOn(CommandLines)

\* Line 134: delay(100).
LoopDelay ==
  /\ pc = "delay"
  /\ \E e \in Elapsed : now' = UAdd(now, e) /\ sinceStore' = Later(sinceStore, e)
  /\ pc' = "loop" /\ caller' = "none"
  /\ UNCHANGED <<lastFetch, pwmDuty, ledDuty, currentProbability, serial, lcd, wifi>>
  /\ ClearObs

(***************************************************************************)
(* The environment: the access point comes and goes.                       *)
(***************************************************************************)
WiFiUp == ~wifi /\ wifi' = TRUE /\ UNCHANGED <<prog, obs, sinceStore>>
WiFiDown == wifi /\ wifi' = FALSE /\ UNCHANGED <<prog, obs, sinceStore>>

Firmware ==
  \/ SetupBegin \/ ConnectBegin \/ WiFiWait \/ ConnectDone
  \/ FetchBegin \/ HttpDone
  \/ LoopTimer \/ LoopNoInput \/ LoopCommand \/ LoopDelay

Next == Firmware \/ WiFiUp \/ WiFiDown

Spec == Init /\ [][Next]_vars

\* The processor never stops: whatever step the sketch can take, it takes.
\* Nothing is assumed of the access point.
FairSpec == Spec /\ WF_vars(Firmware)

(***************************************************************************)
(* One operation of the running sketch over the whole range of inputs.     *)
(* The sketch stands in loop() with WiFi connected and some duty on the    *)
(* meter; then either the operator types a decimal literal (line 105), or  *)
(* the response of a poll started by the fetch command arrives with a      *)
(* number in it (line 200), or setMeterValue is called with a float        *)
(* (lines 80, 110, 124, 223).  Time stands still.                          *)
(***************************************************************************)
\* Duties the meter may show beforehand: off, centre, full scale.
PriorDuties == {0, MeterDuty[F32Half], MeterDuty[F32One]}
AllJson == {Json(p) : p \in Thousandths}

\* setMeterValue(value) for the float of x thousandths.
SetMeterCall ==
  /\ pc = "call"
  /\ \E x \in Thousandths :
       /\ pwmDuty' = MeterDuty[FloatOf[x]]
       /\ op' = "set" /\ result' = "none" /\ cmdLine' = <<>> /\ body' = Json(x)
       /\ dutyBefore' = pwmDuty /\ meterSet' = TRUE
  /\ pc' = "called"
  /\ UNCHANGED <<caller, now, lastFetch, ledDuty, currentProbability, serial, lcd, wifi,
                 sinceStore>>

OneOpInit ==
  /\ pc \in {"serial", "http", "call"}
  /\ caller = (IF pc = "http" THEN "command" ELSE "none")
  /\ wifi = TRUE
  /\ now = 0 /\ lastFetch = 0
  /\ pwmDuty \in PriorDuties /\ ledDuty = LED_ON
  /\ currentProbability = F32Zero
  /\ serial = "" /\ lcd = ""
  /\ op = "none" /\ result = "none" /\ cmdLine = <<>> /\ body = NoBody
  /\ dutyBefore = (IF pc = "http" THEN pwmDuty ELSE NoDuty) /\ meterSet = FALSE
  /\ sinceStore = 0

OneOpNext ==
  \/ LoopCommandOn(Literals)
  \/ HttpDoneOn({HTTP_CODE_OK}, AllJson, {0})
  \/ SetMeterCall

OneOpSpec == OneOpInit /\ [][OneOpNext]_vars

(***************************************************************************)
(* setMeterValue under any calibration.  CENTER_PWM, MAX_PWM and PWM_RANGE *)
(* are #defines (lines 24-26); a build with other numbers runs the same    *)
(* lines 343-356.  A calibration is drawn at the start and kept in body;   *)
(* then setMeterValue is called with one of the values at the ends and at  *)
(* the breakpoint of the mapping.                                          *)
(***************************************************************************)
\* Duty percentages go from 0 to MaxPercent.
MaxPercent == 100
DutyRanges == {255, PWM_RANGE, 4095}
Calibrations ==
  {[kind |-> "calibration", probability |-> 0, center |-> c, max |-> m, range |-> r] :
     c \in 0..MaxPercent, m \in 0..MaxPercent, r \in DutyRanges}
\* The values applied, in thousandths: the ends, the breakpoint and the
\* first thousandth above it.
CalValues == {0, 500, 501, 1000}

CalInit ==
  /\ pc = "call" /\ caller = "none" /\ wifi = TRUE
  /\ now = 0 /\ lastFetch = 0
  /\ pwmDuty = 0 /\ ledDuty = LED_ON
  /\ currentProbability = F32Zero
  /\ serial = "" /\ lcd = ""
  /\ op = "none" /\ result = "none" /\ cmdLine = <<>>
  /\ body \in {cal \in Calibrations : cal.center <= cal.max}
  /\ dutyBefore = NoDuty /\ meterSet = FALSE
  /\ sinceStore = 0

\* setMeterValue(value) for the float of x thousandths, in the build with
\* the calibration kept in body.
CalibratedCall ==
  /\ pc = "call"
  /\ \E x \in CalValues :
       /\ pwmDuty' = DutyFor(FloatOf[x], body.center, body.max, body.range)
       /\ body' = [body EXCEPT !.probability = x]
  /\ op' = "set" /\ result' = "none" /\ cmdLine' = <<>>
  /\ dutyBefore' = pwmDuty /\ meterSet' = TRUE
  /\ pc' = "called"
  /\ UNCHANGED <<caller, now, lastFetch, ledDuty, currentProbability, serial, lcd, wifi,
                 sinceStore>>

CalNext == CalibratedCall

CalSpec == CalInit /\ [][CalNext]_vars

(***************************************************************************)
(* The properties.                                                         *)
(***************************************************************************)
FailedResults == {"wifi_down", "conn_failed", "http_error", "parse_error"}

\* C1: a poll that fails (WiFi down at its start, GET code <= 0, a status
\* other than 200, a body that is not JSON) returns with the PWM duty it
\* started with, and without a call of setMeterValue.
C1_FailedPollKeepsDuty ==
  op = "poll" =>
    /\ result \in FailedResults \cup {"ok"}
    /\ result \in FailedResults => (pwmDuty = dutyBefore /\ ~meterSet)

\* A poll ended in a JSON parse error while the meter showed a duty above 0.
C1_Witness ==
  op = "poll" /\ result = "parse_error" /\ dutyBefore > 0 /\ pwmDuty = dutyBefore

\* What the command channel accepts: center, off, fetch, or a decimal literal
\* (the whole trimmed line, with a digit in it) of a number in [0, 1].
IsDecimalLiteral(c) ==
  /\ \E i \in 1..Len(c) : IsDigit(c[i])
  /\ ParseDecimal(c)[2] = <<>>
AcceptedCommand(c) ==
  \/ c \in {CmdCenterLine, CmdOffLine, CmdFetchLine}
  \/ IsDecimalLiteral(c) /\ ParseDecimal(c)[1] \in 0..1000

\* C2: a command line that is not center, off, fetch or a decimal literal in
\* [0, 1] is rejected with the usage message, the PWM duty is what it was and
\* setMeterValue is not called.
C2_OtherInputRejected ==
  (op = "cmd" /\ ~AcceptedCommand(trim(cmdLine))) =>
    (result = "invalid" /\ pwmDuty = dutyBefore /\ ~meterSet)

\* C3: every poll that is started returns, and control reaches the next
\* iteration of loop(), whatever the access point and the endpoint do.
C3_PollReturnsToLoop == (pc = "fetch") ~> (pc = "loop")

\* C4: when a fetch attempt has just completed, whoever started it, lastFetch
\* is the time of its completion.
C4_TimerResetAfterEveryFetch == op = "poll" => lastFetch = now

\* C5: the command off leaves PWM duty 0, whatever the duty was, written
\* without a call of setMeterValue.
C5_OffYieldsZero ==
  (op = "cmd" /\ trim(cmdLine) = CmdOffLine) =>
    (result = "off" /\ pwmDuty = 0 /\ ~meterSet)

\* off was typed, padded with blanks, while the meter showed a duty above 0.
C5_Witness ==
  op = "cmd" /\ result = "off" /\ dutyBefore > 0 /\ pwmDuty = 0 /\ cmdLine # CmdOffLine

\* C6: for every p in 0..1000 thousandths and every duty before, a successful
\* poll carrying p leaves the duty the literal command p would leave, and the
\* literal command p is accepted and leaves the duty that poll would leave.
C6_PollEqualsManual ==
  /\ (op = "poll" /\ result = "ok" /\ body.probability \in 0..1000) =>
       LET line == Literal(body.probability)
           r == HandleCommand(LineTable[line].command, LineTable[line].value,
                              dutyBefore, lcd)
       IN r.result = "value" /\ pwmDuty = r.duty
  /\ (op = "cmd" /\ ParseDecimal(cmdLine)[1] \in 0..1000) =>
       /\ result = "value"
       /\ pwmDuty = HandleResponse(HTTP_CODE_OK, Json(ParseDecimal(cmdLine)[1]),
                                   dutyBefore, currentProbability, ledDuty).duty

\* A poll carrying 0.73 moved the meter from off.
C6_Witness ==
  op = "poll" /\ result = "ok" /\ body = Json(730) /\ dutyBefore = 0 /\ pwmDuty > 0

\* C7: the duty written for a value in [0, 1] is at least the duty of every
\* smaller value in [0, 1] and at most the duty of every larger one.
C7_Monotone ==
  (op = "set" /\ body.probability \in 0..1000) =>
    \A a \in 0..1000 :
      /\ a < body.probability => DutyAt[a] <= pwmDuty
      /\ a > body.probability => DutyAt[a] >= pwmDuty

\* setMeterValue was called just above the breakpoint and wrote more than the
\* duty of the breakpoint.
C7_Witness ==
  op = "set" /\ body.probability = 503 /\ pwmDuty > MeterDuty[F32Half]

\* C8: the duty last written to PWM_PIN is in 0..PWM_RANGE.
C8_DutyInRange == pwmDuty \in 0..PWM_RANGE

\* A poll carried a probability above 1 and the meter was moved.
C8_Witness ==
  op = "poll" /\ result = "ok" /\ body.probability > 1000 /\ pwmDuty # dutyBefore

ClampThousandths(x) == IF x < 0 THEN 0 ELSE IF x > 1000 THEN 1000 ELSE x

\* C9: the duty setMeterValue writes for any v is the duty it writes for v
\* clamped to [0, 1].
C9_ClampLaw ==
  op = "set" => pwmDuty = DutyAt[ClampThousandths(body.probability)]

\* setMeterValue was called with a negative value while the meter showed a
\* duty above 0.
C9_Witness ==
  op = "set" /\ body.probability < 0 /\ dutyBefore > 0 /\ pwmDuty = 0

\* The duty of x thousandths by the two-stage rule on integers.
RefPercentTimes10(x, center, max) ==
  IF x <= 500 THEN (x * center * 10) \div 500
  ELSE center * 10 + ((x - 500) * (max - center) * 10) \div 500
RefDuty(x, center, max, range) ==
  (RefPercentTimes10(x, center, max) * range) \div 1000

\* C10: for every x in 0..1000 thousandths the duty setMeterValue writes is
\* trunc(T(x) * dutyRange / 1000) with T(x) the truncated duty percentage
\* times 10 of the piece x lies in.
C10_TwoStageReference ==
  (op = "set" /\ body.probability \in 0..1000) =>
    pwmDuty = RefDuty(body.probability, CENTER_PWM, MAX_PWM, PWM_RANGE)
\* C11: for every calibration with 0 <= centerDuty <= maxDuty <= 100 and
\* dutyRange > 0, setMeterValue(0.0) writes duty 0 and setMeterValue(1.0)
\* writes trunc(maxDuty * 10 * dutyRange / 1000).
C11_Endpoints ==
  op = "set" =>
    /\ body.probability = 0 => pwmDuty = 0
    /\ body.probability = 1000 => pwmDuty = (body.max * 10 * body.range) \div 1000

\* setMeterValue(1.0) was called in a build with centre 30 %, full scale 80 %
\* and an 8-bit duty range, and wrote 204.
C11_Witness ==
  /\ op = "set" /\ body.probability = 1000
  /\ body.center = 30 /\ body.max = 80 /\ body.range = 255
  /\ pwmDuty = 204

\* The most the upper piece rises over one thousandth of value, in tenths of
\* a percent, rounded up.
UpperStep(center, max) == ((max - center) * 10 + 499) \div 500
\* Line 354 for a duty percentage of t tenths of a percent.
DutyOfTenths(t, range) == (t * range) \div 1000

\* C12: for every calibration, setMeterValue(0.5) writes
\* trunc(centerDuty * 10 * dutyRange / 1000); the lower piece and the upper
\* piece both give centerDuty at 0.5; and the duty written for the first
\* thousandth above 0.5 is at least the duty at 0.5 and at most the duty one
\* step of the upper piece above it.
C12_BreakpointContinuity ==
  /\ (op = "set" /\ body.probability = 500) =>
       /\ pwmDuty = DutyOfTenths(body.center * 10, body.range)
       /\ LowerPiece(F32Half, body.center) = body.center * 10
       /\ UpperPiece(F32Half, body.center, body.max) = body.center * 10
  /\ (op = "set" /\ body.probability = 501) =>
       /\ pwmDuty >= DutyOfTenths(body.center * 10, body.range)
       /\ pwmDuty <= DutyOfTenths(body.center * 10 + UpperStep(body.center, body.max),
                                  body.range)

\* setMeterValue(0.5) was called in a build with centre 30 %, full scale 80 %
\* and a 12-bit duty range, and wrote 1228.
C12_Witness ==
  /\ op = "set" /\ body.probability = 500
  /\ body.center = 30 /\ body.max = 80 /\ body.range = 4095
  /\ pwmDuty = 1228

\* C13: the duty left by applying a value depends on the value and the route
\* only.  Whatever happened before (the duty shown, the polls and commands
\* handled, currentProbability, the LED, the display), a literal command, the
\* command center and a successful poll leave the duty the same command or
\* response leaves in a sketch that has just started (duty 0,
\* currentProbability 0.0, LED off, blank display).
C13_Stateless ==
  /\ (op = "cmd" /\ result \in {"value", "center"}) =>
       pwmDuty = HandleCommand(LineTable[cmdLine].command, LineTable[cmdLine].value,
                               0, "").duty
  /\ (op = "poll" /\ result = "ok") =>
       pwmDuty = HandleResponse(HTTP_CODE_OK, body, 0, F32Zero, 0).duty

\* The literal 0.730 was applied after a poll had stored a probability above
\* 1 and left the meter at full scale.
C13_Witness ==
  /\ op = "cmd" /\ result = "value" /\ cmdLine = Literal(730)
  /\ dutyBefore = MeterDuty[F32One] /\ currentProbability = FloatOf[1500]
  /\ pwmDuty = DutyAt[730]

\* A poll found WiFi down (line 183) and is inside connectToWiFi (line 187).
Reconnecting == pc \in {"connect", "wifi_wait"} /\ caller # "none"
AbandonedPoll == op = "poll" /\ result = "wifi_down"

\* While a poll reconnects, control stays in connectToWiFi or returns to the
\* caller of the poll: no GET is sent and PWM_PIN is not written.
ReconnectStep ==
  Reconnecting =>
    /\ pc' \in {"connect", "wifi_wait", ReturnPc(caller)}
    /\ pwmDuty' = pwmDuty /\ currentProbability' = currentProbability
    /\ ~meterSet'
    /\ pc' = ReturnPc(caller) => (wifi /\ op' = "poll" /\ result' = "wifi_down")

\* fetchProbabilityData is entered from the timer of loop() when it is due,
\* from the command fetch, and once from setup().
FetchEntry ==
  (pc' = "fetch" /\ pc # "fetch") =>
    \/ pc = "loop" /\ FetchDue(now, lastFetch) /\ caller' = "loop"
    \/ pc = "serial" /\ caller' = "command"
    \/ pc = "wifi_wait" /\ caller = "none" /\ caller' = "setup"

LedTurnsOn == ledDuty = 0 /\ ledDuty' # 0
\* fetchProbabilityData finds WiFi.status() other than WL_CONNECTED.
PollFindsWiFiDown == pc = "fetch" /\ ~wifi /\ pc' # "fetch"

\* C15: while control is in connectToWiFi before WL_CONNECTED is seen, the
\* duty of LED_PIN is 0; the LED goes from off to lit only in the step in
\* which connectToWiFi sees WL_CONNECTED; and a poll that finds WiFi down
\* has written 0 to LED_PIN when it enters connectToWiFi.
C15_LedOnlyAfterConnected ==
  /\ [](pc \in {"connect", "wifi_wait"} => ledDuty = 0)
  /\ [][LedTurnsOn => (pc = "wifi_wait" /\ wifi /\ ledDuty' = LED_ON)]_vars
  /\ [][PollFindsWiFiDown => (pc' = "connect" /\ ledDuty' = 0)]_vars

\* A poll started by the timer found WiFi down after the LED had been lit,
\* and is waiting in connectToWiFi with the LED off.
C15_Witness ==
  pc = "wifi_wait" /\ caller = "loop" /\ ~wifi /\ ledDuty = 0 /\ lcd = "Connecting WiFi..."

\* Control is in setup(): before or inside its connectToWiFi(), or inside its
\* fetchProbabilityData().
InSetupConnect == caller = "none" /\ pc \in {"boot", "connect", "wifi_wait"}
InSetupFetch == caller = "setup" /\ pc \in {"fetch", "http", "connect", "wifi_wait"}
\* A data point was applied, or a manual value (a literal, or center for 0.5).
ValueApplied ==
  \/ op = "poll" /\ result = "ok"
  \/ op = "cmd" /\ result \in {"value", "center"}

\* setup() goes from connectToWiFi() straight into its one fetch and from
\* that fetch, with lastFetch stored, into the first iteration of loop();
\* no other fetch is made by setup(), and loop() is not entered otherwise.
SetupOrder ==
  /\ (InSetupConnect /\ pc = "wifi_wait" /\ pc' # pc) =>
       (wifi /\ pc' = "fetch" /\ caller' = "setup")
  /\ InSetupConnect => (pc' # "loop" /\ op' # "poll" /\ lastFetch' = lastFetch)
  /\ InSetupFetch =>
       /\ caller' = "setup"
       /\ IF op' = "poll" THEN pc' = "loop" /\ lastFetch' = now'
          ELSE pc' # "loop" /\ lastFetch' = lastFetch
  /\ (caller' = "setup" /\ caller # "setup") => InSetupConnect
  /\ pc' = "boot" => pc = "boot"

\* C16: setup() has called setMeterValue(0) when it enters connectToWiFi();
\* it makes one fetch right after connectToWiFi() returns, before loop()
\* runs, and stores lastFetch when that fetch returns; the PWM duty is 0 at
\* power-up and all through setup(), and it leaves 0 only in a step that
\* applies a data point or a manual value.
C16_StartupOrdering ==
  /\ pwmDuty = 0
  /\ []((InSetupConnect \/ InSetupFetch) => pwmDuty = 0)
  /\ []((InSetupConnect /\ pc = "connect") => (op = "setup" /\ meterSet))
  /\ [][SetupOrder]_vars
  /\ [][(pwmDuty = 0 /\ pwmDuty' # 0) => ValueApplied']_vars

\* The fetch of setup() failed on a malformed body: loop() is about to run
\* for the first time, lastFetch is stored, and the duty is still 0.
C16_Witness ==
  /\ pc = "loop" /\ caller = "setup" /\ op = "poll" /\ result = "parse_error"
  /\ lastFetch = now /\ now > 0 /\ pwmDuty = 0

\* loop() tests its timer (line 100).
TimerTest == pc = "loop" /\ pc' # "loop"

\* C17: loop() starts an automatic fetch exactly when
\* (millis() - lastFetch) mod 2^w >= fetchInterval.  Hence an automatic fetch
\* starts only when at least fetchInterval has really passed since lastFetch
\* was stored at the end of the last automatic or startup fetch; and when
\* at least fetchInterval and less than a period of the counter has passed,
\* the fetch starts at that test, also when millis() has wrapped past 0 and
\* is below lastFetch.
C17_FetchSpacing ==
  [][TimerTest =>
       /\ (pc' = "fetch") = (USub(now, lastFetch) >= fetchInterval)
       /\ pc' = "fetch" => (caller' = "loop" /\ sinceStore >= fetchInterval)
       /\ (sinceStore >= fetchInterval /\ sinceStore < MillisMod) => pc' = "fetch"
    ]_vars

\* An automatic fetch has started after millis() wrapped past 0: the counter
\* is below lastFetch, and fetchInterval and less than a period has passed.
C17_Witness ==
  /\ pc = "fetch" /\ caller = "loop" /\ now < lastFetch
  /\ sinceStore >= fetchInterval /\ sinceStore < MillisMod

\* The duty percentage setMeterValue(value) computes at lines 348-352.
AppliedPercentage(value) == pwmPercentage(constrain01(value), CENTER_PWM, MAX_PWM)

\* C18: the "% PWM" figure printed after the meter was moved is the duty
\* percentage setMeterValue computed: at line 226, after a successful poll,
\* valueToPercentage(currentProbability) for every fetched probability, also
\* outside [0, 1]; at line 126, after a literal command,
\* valueToPercentage(value) for the value parsed.
C18_LoggedMatchesApplied ==
  /\ (op = "poll" /\ result = "ok") =>
       valueToPercentage(currentProbability) = AppliedPercentage(currentProbability)
  /\ (op = "cmd" /\ result = "value") =>
       valueToPercentage(LineTable[cmdLine].value)
         = AppliedPercentage(LineTable[cmdLine].value)
=============================================================================
